---- MODULE Spec2Model ----
\* Model of lnd_summary.py: the per-day forwarding CSV builder (generate_csv),
\* the chart step (generate_charts) and the year-in-review summary
\* (generate_summary), run in that order by the module top level.
\*
\* Numbers: Python/numpy/pandas floats are represented as exact rationals
\* [n |-> numerator, d |-> denominator]; int() is truncation of the exact
\* value.  A BTC amount (sat / 1e8) is kept as its numerator in satoshi.
\* pandas' NaN (0/0) and inf (x/0) are the rationals with d = 0.
EXTENDS Integers, Sequences, FiniteSets

\* ---------------------------------------------------------------- bounds
NumDates == 3       \* size of the window of calendar days the arguments come from
MaxFetched == 2     \* most events one lncli call returns in a run
MaxEvents == 3      \* most events of the day given to the per-day aggregation alone

\* ------------------------------------------------------ program constants
MsatPerSat == 1000
PpmScale == 1000000

\* ------------------------------------------------------------ calendar
IsLeap(y) == (y % 4 = 0) /\ ((y % 100 # 0) \/ (y % 400 = 0))

DaysInMonth(y, m) ==
    IF m = 2 THEN (IF IsLeap(y) THEN 29 ELSE 28)
    ELSE IF m \in {4, 6, 9, 11} THEN 30 ELSE 31

RECURSIVE DaysBeforeMonth(_, _)
DaysBeforeMonth(y, m) ==
    IF m = 1 THEN 0 ELSE DaysBeforeMonth(y, m - 1) + DaysInMonth(y, m - 1)

DaysBeforeYear(y) ==
    (y - 1) * 365 + ((y - 1) \div 4) - ((y - 1) \div 100) + ((y - 1) \div 400)

\* datetime.toordinal(): the day number that date subtraction works on
ToOrdinal(dt) == DaysBeforeYear(dt.y) + DaysBeforeMonth(dt.y, dt.m) + dt.d

\* current_date + timedelta(days=1)
NextDay(dt) ==
    IF dt.d < DaysInMonth(dt.y, dt.m) THEN [y |-> dt.y, m |-> dt.m, d |-> dt.d + 1]
    ELSE IF dt.m < 12 THEN [y |-> dt.y, m |-> dt.m + 1, d |-> 1]
    ELSE [y |-> dt.y + 1, m |-> 1, d |-> 1]

RECURSIVE AddDays(_, _)
AddDays(dt, k) == IF k = 0 THEN dt ELSE AddDays(NextDay(dt), k - 1)

\* the --start / --end arguments come from a window around a year boundary
BaseDate == [y |-> 2024, m |-> 12, d |-> 30]
Dates == {AddDays(BaseDate, k) : k \in 0..(NumDates - 1)}

\* ------------------------------------------------------------ sequences
SeqsUpTo(S, n) == UNION {[1..k -> S] : k \in 0..n}

RECURSIVE ListSum(_)
ListSum(s) == IF s = <<>> THEN 0 ELSE Head(s) + ListSum(Tail(s))

RECURSIVE ListMax(_)
ListMax(s) ==
    IF Len(s) = 1 THEN s[1]
    ELSE LET r == ListMax(Tail(s)) IN IF Head(s) >= r THEN Head(s) ELSE r

RECURSIVE Insert(_, _)
Insert(x, s) ==
    IF s = <<>> THEN <<x>>
    ELSE IF x <= Head(s) THEN <<x>> \o s
    ELSE <<Head(s)>> \o Insert(x, Tail(s))

RECURSIVE Sorted(_)
Sorted(s) == IF s = <<>> THEN <<>> ELSE Insert(Head(s), Sorted(Tail(s)))

\* ------------------------------------------------------------ rationals
Rat(n, d) == [n |-> n, d |-> d]

RatAdd(x, y) == Rat(x.n * y.d + y.n * x.d, x.d * y.d)

RECURSIVE RatSum(_)
RatSum(s) == IF s = <<>> THEN Rat(0, 1) ELSE RatAdd(Head(s), RatSum(Tail(s)))

\* int(x) of a finite non-negative value
Trunc(x) == x.n \div x.d

\* ------------------------------------------------- per-day aggregation
\* the milli-satoshi values lncli reports in the model
AmtMsat == {0, 1999, 2000, 3000}
FeeMsat == {0, 999, 1000, 2000}
Event == [amt_out_msat : AmtMsat, fee_msat : FeeMsat]

\* the events a call returns during a run (a smaller alphabet)
RunEvent == [amt_out_msat : {999, 2000}, fee_msat : {0, 1000}]

AmtOutList(ev) == [i \in 1..Len(ev) |-> ev[i].amt_out_msat \div MsatPerSat]

FeeList(ev) == [i \in 1..Len(ev) |-> ev[i].fee_msat \div MsatPerSat]

\* f / a * 1_000_000 if a > 0 else 0
PpmOf(a, f) == IF a > 0 THEN Rat(f * PpmScale, a) ELSE Rat(0, 1)

PpmList(ev) == [i \in 1..Len(ev) |-> PpmOf(AmtOutList(ev)[i], FeeList(ev)[i])]

\* a plausible slip: the mean taken over the events that have an amount only
MeanOverNonZero(ppm) ==
    LET s == RatSum(ppm)
        k == Cardinality({i \in 1..Len(ppm) : ppm[i].n > 0})
    IN  Rat(s.n, s.d * (IF k = 0 THEN 1 ELSE k))

\* np.mean
Mean(ppm) == LET s == RatSum(ppm) IN Rat(s.n, s.d * Len(ppm))

\* a plausible slip: interpolating in the list as given, without ordering it
PercentileUnsorted(a, q) ==
    LET pos == q * (Len(a) - 1)
        lo  == (pos \div 100) + 1
        hi  == IF lo < Len(a) THEN lo + 1 ELSE lo
    IN  Rat(a[lo] * 100 + (a[hi] - a[lo]) * (pos % 100), 100)

\* np.percentile(a, q), linear interpolation at rank q/100 * (n-1)
Percentile(a, q) ==
    LET srt == Sorted(a)
        pos == q * (Len(a) - 1)
        lo  == (pos \div 100) + 1
        hi  == IF lo < Len(a) THEN lo + 1 ELSE lo
    IN  Rat(srt[lo] * 100 + (srt[hi] - srt[lo]) * (pos % 100), 100)

ZeroRow(dt) ==
    [date |-> dt, tx_count |-> 0, total_forwarded_sat |-> 0, fees_earned_sat |-> 0,
     avg_ppm |-> 0, p50_sat |-> 0, p95_sat |-> 0, max_forward_sat |-> 0,
     max_fee_sat |-> 0]

EventsRow(dt, ev) ==
    [date |-> dt,
     tx_count |-> Len(ev),
     total_forwarded_sat |-> ListSum(AmtOutList(ev)),
     fees_earned_sat |-> ListSum(FeeList(ev)),
     avg_ppm |-> Trunc(Mean(PpmList(ev))),
     p50_sat |-> Trunc(Percentile(AmtOutList(ev), 50)),
     p95_sat |-> Trunc(Percentile(AmtOutList(ev), 95)),
     max_forward_sat |-> ListMax(AmtOutList(ev)),
     max_fee_sat |-> ListMax(FeeList(ev))]

\* the row written for a day whose query succeeded
DayRow(dt, ev) == IF ev = <<>> THEN ZeroRow(dt) ELSE EventsRow(dt, ev)


\* ------------------------------------------------------------ state
VARIABLES
    start_date,     \* --start, parsed
    end_date,       \* --end, parsed
    pc,             \* "open", "loop", "charts", "summary", "done", "aborted"
    total_days,     \* generate_csv: (end_date - start_date).days + 1
    current_date,   \* generate_csv: the day the loop is at
    n_done,         \* generate_csv: iterations of the loop finished
    header_written, \* the CSV file exists and holds its header line
    rows,           \* the data rows of the CSV file, in the order written
    log,            \* dates of the "ERROR on <date>" lines written so far
    queried,        \* the lncli calls so far: [date, outcome]
    df,             \* the frame read back from the CSV file
    charts_saved,   \* both chart files are written
    monthly,        \* generate_summary: the monthly table printed
    summary,        \* generate_summary: the values of the printed summary
    error,          \* the uncaught exception that ended the run, or "none"
    events,         \* per-day aggregation alone: the events of the day
    daily,          \* per-day aggregation alone: the row written for them
    day_pc          \* per-day aggregation alone: "idle", "input" or "written"

vars == <<start_date, end_date, pc, total_days, current_date, n_done,
          header_written, rows, log, queried, df, charts_saved, monthly,
          summary, error, events, daily, day_pc>>

csv_vars == <<total_days, current_date, n_done, header_written, rows, log, queried>>
day_vars == <<events, daily, day_pc>>
out_vars == <<df, charts_saved, monthly, summary>>

NoSummary == [printed |-> FALSE]

\* the state after argument parsing (lines 21-35)
Init ==
    /\ start_date \in Dates
    /\ end_date \in Dates
    /\ pc = "open"
    /\ total_days = 0
    /\ current_date = start_date
    /\ n_done = 0
    /\ header_written = FALSE
    /\ rows = <<>>
    /\ log = <<>>
    /\ queried = <<>>
    /\ df = <<>>
    /\ charts_saved = FALSE
    /\ monthly = <<>>
    /\ summary = NoSummary
    /\ error = "none"
    /\ events = <<>>
    /\ daily = ZeroRow(BaseDate)
    /\ day_pc = "idle"

\* ------------------------------------------------------ generate_csv
\* total_days, current_date, open("w"), writeheader()
OpenCsv ==
    /\ pc = "open"
    /\ total_days' = ToOrdinal(end_date) - ToOrdinal(start_date) + 1
    /\ current_date' = start_date
    /\ header_written' = TRUE
    /\ pc' = "loop"
    /\ UNCHANGED <<start_date, end_date, n_done, rows, log, queried, error>>
    /\ UNCHANGED out_vars
    /\ UNCHANGED day_vars

InLoop == pc = "loop" /\ n_done < total_days

\* one iteration, lncli exits non-zero: the ERROR line, no row
DayExitError ==
    /\ InLoop
    /\ queried' = Append(queried, [date |-> current_date, outcome |-> "exit"])
    /\ log' = Append(log, current_date)
    /\ current_date' = NextDay(current_date)
    /\ n_done' = n_done + 1
    /\ UNCHANGED <<start_date, end_date, pc, total_days, header_written, rows, error>>
    /\ UNCHANGED out_vars
    /\ UNCHANGED day_vars

\* one iteration, lncli exits 0 with output that is not JSON: json.loads raises
DayMalformed ==
    /\ InLoop
    /\ queried' = Append(queried, [date |-> current_date, outcome |-> "malformed"])
    /\ error' = "JSONDecodeError"
    /\ pc' = "aborted"
    /\ UNCHANGED <<start_date, end_date, total_days, current_date, n_done,
                   header_written, rows, log>>
    /\ UNCHANGED out_vars
    /\ UNCHANGED day_vars

\* one iteration, lncli answers with no events: the zero row
DayNoEvents ==
    /\ InLoop
    /\ queried' = Append(queried, [date |-> current_date, outcome |-> "ok"])
    /\ rows' = Append(rows, ZeroRow(current_date))
    /\ current_date' = NextDay(current_date)
    /\ n_done' = n_done + 1
    /\ UNCHANGED <<start_date, end_date, pc, total_days, header_written, log, error>>
    /\ UNCHANGED out_vars
    /\ UNCHANGED day_vars

\* one iteration, lncli answers with events: the aggregated row
DayEvents ==
    /\ InLoop
    /\ \E ev \in SeqsUpTo(RunEvent, MaxFetched) :
        /\ ev # <<>>
        /\ rows' = Append(rows, EventsRow(current_date, ev))
    /\ queried' = Append(queried, [date |-> current_date, outcome |-> "ok"])
    /\ current_date' = NextDay(current_date)
    /\ n_done' = n_done + 1
    /\ UNCHANGED <<start_date, end_date, pc, total_days, header_written, log, error>>
    /\ UNCHANGED out_vars
    /\ UNCHANGED day_vars

\* the loop is over: the file is closed and read back
FinishCsv ==
    /\ pc = "loop"
    /\ ~(n_done < total_days)
    /\ df' = rows
    /\ pc' = "charts"
    /\ UNCHANGED <<start_date, end_date, error, charts_saved, monthly, summary>>
    /\ UNCHANGED csv_vars
    /\ UNCHANGED day_vars

\* ---------------------------------------------------- generate_charts
GenerateCharts ==
    /\ pc = "charts"
    /\ charts_saved' = TRUE
    /\ pc' = "summary"
    /\ UNCHANGED <<start_date, end_date, error, df, monthly, summary>>
    /\ UNCHANGED csv_vars
    /\ UNCHANGED day_vars

\* --------------------------------------------------- generate_summary
RECURSIVE InsertByDate(_, _)
InsertByDate(r, s) ==
    IF s = <<>> THEN <<r>>
    ELSE IF ToOrdinal(r.date) < ToOrdinal(Head(s).date) THEN <<r>> \o s
    ELSE <<Head(s)>> \o InsertByDate(r, Tail(s))

\* df.sort_values("date")
RECURSIVE SortByDate(_)
SortByDate(d) ==
    IF d = <<>> THEN <<>>
    ELSE InsertByDate(d[Len(d)], SortByDate(SubSeq(d, 1, Len(d) - 1)))

\* strftime('%m-%Y') as character codes: two month digits, '-', four year digits
MonthKey(dt) ==
    <<48 + (dt.m \div 10), 48 + (dt.m % 10), 45,
      48 + (dt.y \div 1000), 48 + ((dt.y \div 100) % 10),
      48 + ((dt.y \div 10) % 10), 48 + (dt.y % 10)>>

\* string comparison
RECURSIVE LexLess(_, _)
LexLess(a, b) ==
    IF b = <<>> THEN FALSE
    ELSE IF a = <<>> THEN TRUE
    ELSE IF Head(a) # Head(b) THEN Head(a) < Head(b)
    ELSE LexLess(Tail(a), Tail(b))

\* groupby sorts the group keys
RECURSIVE SortedKeys(_)
SortedKeys(K) ==
    IF K = {} THEN <<>>
    ELSE LET k == CHOOSE x \in K : \A z \in K \ {x} : LexLess(x, z)
         IN  <<k>> \o SortedKeys(K \ {k})

RECURSIVE SumWhere(_, _, _)
SumWhere(d, key, col) ==
    IF d = <<>> THEN 0
    ELSE (IF MonthKey(Head(d).date) = key THEN Head(d)[col] ELSE 0)
         + SumWhere(Tail(d), key, col)

\* df.groupby('month').agg(sum, sum).reset_index(); amounts in satoshi
GroupByMonth(d) ==
    LET keys == SortedKeys({MonthKey(d[i].date) : i \in 1..Len(d)})
    IN  [k \in 1..Len(keys) |->
            [month |-> keys[k],
             total_forwarded_btc |-> SumWhere(d, keys[k], "total_forwarded_sat"),
             total_fees_btc |-> SumWhere(d, keys[k], "fees_earned_sat")]]

\* total_fees_btc / total_forwarded_btc * 1_000_000 of one month
MonthPpm(g) == Rat(g.total_fees_btc * PpmScale, g.total_forwarded_btc)

\* .astype(int) raises on NaN and on inf
CastRaises(m) == \E k \in 1..Len(m) : MonthPpm(m[k]).d = 0

WithAvgPpm(m) ==
    [k \in 1..Len(m) |->
        [month |-> m[k].month,
         total_forwarded_btc |-> m[k].total_forwarded_btc,
         total_fees_btc |-> m[k].total_fees_btc,
         avg_ppm |-> Trunc(MonthPpm(m[k]))]]

Column(d, col) == [i \in 1..Len(d) |-> d[i][col]]

\* Series.idxmax(): the first row that holds the largest value
IdxMax(v) ==
    CHOOSE i \in 1..Len(v) :
        /\ \A j \in 1..Len(v) : v[j] <= v[i]
        /\ \A j \in 1..(i - 1) : v[j] < v[i]

\* fees_btc / total_forwarded_btc of every row: 0/0 is NaN, x/0 is inf
RatioColumn(d) ==
    [i \in 1..Len(d) |-> Rat(d[i].fees_earned_sat, d[i].total_forwarded_sat)]

IsNaN(x) == x.n = 0 /\ x.d = 0

\* x < y for values that are not NaN (inf is n/0 with n > 0)
RatLess(x, y) == x.n * y.d < y.n * x.d

\* idxmax() of the ratio column: NaN is skipped, inf is the largest value
IdxMaxRatio(v) ==
    CHOOSE i \in 1..Len(v) :
        /\ ~IsNaN(v[i])
        /\ \A j \in 1..Len(v) : IsNaN(v[j]) \/ ~RatLess(v[i], v[j])
        /\ \A j \in 1..(i - 1) : IsNaN(v[j]) \/ RatLess(v[j], v[i])

SummaryOf(d, m) ==
    LET tf == ListSum(Column(m, "total_forwarded_btc"))
        tfees == ListSum(Column(m, "total_fees_btc"))
    IN  [printed |-> TRUE,
         total_forwarded |-> tf,
         total_fees |-> tfees,
         avg_ppm_overall |-> IF tf > 0 THEN Trunc(Rat(tfees * PpmScale, tf)) ELSE 0,
         max_forwarded_day |-> d[IdxMax(Column(d, "total_forwarded_sat"))],
         max_fees_day |-> d[IdxMax(Column(d, "fees_earned_sat"))],
         max_ppm_day |-> d[IdxMaxRatio(RatioColumn(d))],
         largest_single_forward |-> d[IdxMax(Column(d, "max_forward_sat"))],
         largest_single_fee |-> d[IdxMax(Column(d, "max_fee_sat"))]]

\* the frame has no rows: the .dt accessor or the first idxmax() raises,
\* which of the two depends on the pandas in use
SummaryEmpty ==
    /\ pc = "summary"
    /\ df = <<>>
    /\ error' \in {"AttributeError", "ValueError"}
    /\ pc' = "aborted"
    /\ UNCHANGED <<start_date, end_date>>
    /\ UNCHANGED out_vars
    /\ UNCHANGED csv_vars
    /\ UNCHANGED day_vars

\* a month whose forwarded total is 0: astype(int) raises (line 178)
SummaryCastError ==
    /\ pc = "summary"
    /\ df # <<>>
    /\ CastRaises(GroupByMonth(SortByDate(df)))
    /\ error' = "IntCastingNaNError"
    /\ pc' = "aborted"
    /\ UNCHANGED <<start_date, end_date>>
    /\ UNCHANGED out_vars
    /\ UNCHANGED csv_vars
    /\ UNCHANGED day_vars

\* the summary and the monthly table are computed and printed
SummaryPrinted ==
    /\ pc = "summary"
    /\ df # <<>>
    /\ LET d == SortByDate(df)
           g == GroupByMonth(d)
       IN  /\ ~CastRaises(g)
           /\ monthly' = WithAvgPpm(g)
           /\ summary' = SummaryOf(d, WithAvgPpm(g))
    /\ pc' = "done"
    /\ UNCHANGED <<start_date, end_date, error, df, charts_saved>>
    /\ UNCHANGED csv_vars
    /\ UNCHANGED day_vars

\* ------------------------------------------------------ the whole run
Next ==
    \/ OpenCsv
    \/ DayExitError
    \/ DayMalformed
    \/ DayNoEvents
    \/ DayEvents
    \/ FinishCsv
    \/ GenerateCharts
    \/ SummaryEmpty
    \/ SummaryCastError
    \/ SummaryPrinted

Spec == Init /\ [][Next]_vars

\* ------------------------------------- the per-day aggregation alone
\* one successful lncli answer, and the row the loop body writes for it
InitDay ==
    /\ start_date = BaseDate
    /\ end_date = BaseDate
    /\ pc = "loop"
    /\ total_days = 1
    /\ current_date = BaseDate
    /\ n_done = 0
    /\ header_written = TRUE
    /\ rows = <<>>
    /\ log = <<>>
    /\ queried = <<>>
    /\ df = <<>>
    /\ charts_saved = FALSE
    /\ monthly = <<>>
    /\ summary = NoSummary
    /\ error = "none"
    /\ events \in SeqsUpTo(Event, MaxEvents)
    /\ daily = ZeroRow(BaseDate)
    /\ day_pc = "input"

WriteDayRow ==
    /\ day_pc = "input"
    /\ daily' = DayRow(current_date, events)
    /\ day_pc' = "written"
    /\ UNCHANGED <<start_date, end_date, pc, error, events>>
    /\ UNCHANGED csv_vars
    /\ UNCHANGED out_vars

NextDaily == WriteDayRow

SpecDaily == InitDay /\ [][NextDaily]_vars

\* ================================================================
\* Properties
\* ================================================================
Ord(r) == ToOrdinal(r.date)

ValidRange == ToOrdinal(start_date) <= ToOrdinal(end_date)

\* generate_csv returned: the file is complete and was read back
SeriesWritten == pc \in {"charts", "summary", "done"} \/ (pc = "aborted" /\ error # "JSONDecodeError")

\* generate_summary has run on the frame
SummaryRan == pc = "done" \/ (pc = "aborted" /\ error # "JSONDecodeError")

RECURSIVE FnSum(_, _)
FnSum(f, S) ==
    IF S = {} THEN 0
    ELSE LET i == CHOOSE x \in S : TRUE IN f[i] + FnSum(f, S \ {i})

RECURSIVE FnProd(_, _)
FnProd(f, S) ==
    IF S = {} THEN 1
    ELSE LET i == CHOOSE x \in S : TRUE IN f[i] * FnProd(f, S \ {i})

\* C1: once the series is written for a range with start <= end, it holds
\* exactly one row for each day of the range, in ascending date order, and the
\* row of a day whose fetch failed is the all-zero record.
C1_SeriesComplete ==
    (SeriesWritten /\ ValidRange) =>
        /\ Len(rows) = ToOrdinal(end_date) - ToOrdinal(start_date) + 1
        /\ \A k \in 1..Len(rows) :
            /\ rows[k].date = AddDays(start_date, k - 1)
            /\ (queried[k].outcome # "ok" => rows[k] = ZeroRow(rows[k].date))

\* C2: a failed query of either kind is never fatal: its date is in the log,
\* the run is not aborted by it, the days are queried once each in
\* chronological order, and the loop ends with every day of the range queried.
C2_QueryErrorNeverFatal ==
    /\ \A k \in 1..Len(queried) :
        /\ queried[k].date = AddDays(start_date, k - 1)
        /\ (queried[k].outcome \in {"exit", "malformed"} =>
                /\ \E j \in 1..Len(log) : log[j] = queried[k].date
                /\ error # "JSONDecodeError"
                /\ pc # "aborted")
    /\ (pc \notin {"open", "loop"} /\ ValidRange =>
            Len(queried) = ToOrdinal(end_date) - ToOrdinal(start_date) + 1)

\* C3: the day printed as the one with the highest fee ratio has
\* total_forwarded > 0, and its ratio is the largest among the days with
\* total_forwarded > 0.
C3_ZeroForwardedExcluded ==
    pc = "done" =>
        LET s == summary.max_ppm_day IN
        /\ s.total_forwarded_sat > 0
        /\ \A i \in 1..Len(df) :
            df[i].total_forwarded_sat > 0 =>
                df[i].fees_earned_sat * s.total_forwarded_sat
                    <= s.fees_earned_sat * df[i].total_forwarded_sat

KeyMonth(key) == (key[1] - 48) * 10 + (key[2] - 48)

KeyYear(key) ==
    (key[4] - 48) * 1000 + (key[5] - 48) * 100 + (key[6] - 48) * 10 + (key[7] - 48)

MonthsOf(d) == {<<d[i].date.y, d[i].date.m>> : i \in 1..Len(d)}

MonthTotal(d, ym, col) ==
    FnSum([i \in 1..Len(d) |-> d[i][col]],
          {i \in 1..Len(d) : d[i].date.y = ym[1] /\ d[i].date.m = ym[2]})

\* C4: the summary of a non-empty series never faults in the monthly table,
\* and every month of the series has a row whose avg_ppm is
\* total_fees / total_forwarded * 1_000_000 truncated, or 0 for a month
\* with total_forwarded = 0.
C4_MonthlyAvgPpm ==
    (SummaryRan /\ df # <<>>) =>
        /\ error = "none"
        /\ \A ym \in MonthsOf(df) :
            \E k \in 1..Len(monthly) :
                /\ KeyYear(monthly[k].month) = ym[1]
                /\ KeyMonth(monthly[k].month) = ym[2]
                /\ LET tf == MonthTotal(df, ym, "total_forwarded_sat")
                       fe == MonthTotal(df, ym, "fees_earned_sat")
                   IN  monthly[k].avg_ppm =
                           IF tf > 0 THEN (fe * PpmScale) \div tf ELSE 0

\* C5: the monthly table has one row per (year, month) of the series, in
\* chronological month order.
C5_MonthsChronological ==
    pc = "done" =>
        /\ Len(monthly) = Cardinality(MonthsOf(df))
        /\ \A a, b \in 1..Len(monthly) :
            a < b =>
                KeyYear(monthly[a].month) * 12 + KeyMonth(monthly[a].month)
                    < KeyYear(monthly[b].month) * 12 + KeyMonth(monthly[b].month)

NoEligibleDay == \A i \in 1..Len(df) : df[i].total_forwarded_sat = 0

\* C6: a summary over a series with no day eligible for the fee-ratio
\* selection (an empty series included) ends with the insufficient-data
\* condition, and prints no selected day.
C6_InsufficientData ==
    (SummaryRan /\ NoEligibleDay) =>
        /\ error = "InsufficientDataError"
        /\ ~summary.printed

EarliestMax(sel, col) ==
    /\ \E i \in 1..Len(df) : df[i] = sel
    /\ \A i \in 1..Len(df) :
        /\ df[i][col] <= sel[col]
        /\ (df[i][col] = sel[col] => Ord(sel) <= Ord(df[i]))

EarliestMaxRatio(sel) ==
    /\ \E i \in 1..Len(df) : df[i] = sel
    /\ sel.total_forwarded_sat > 0
    /\ \A i \in 1..Len(df) :
        df[i].total_forwarded_sat > 0 =>
            LET l == df[i].fees_earned_sat * sel.total_forwarded_sat
                r == sel.fees_earned_sat * df[i].total_forwarded_sat
            IN  l <= r /\ (l = r => Ord(sel) <= Ord(df[i]))

\* C7: each of the five days printed attains the maximum of its metric over
\* the series (the fee ratio over the days with total_forwarded > 0), and
\* is the earliest of the days that attain it.
C7_ExtremalDays ==
    pc = "done" =>
        /\ EarliestMax(summary.max_forwarded_day, "total_forwarded_sat")
        /\ EarliestMax(summary.max_fees_day, "fees_earned_sat")
        /\ EarliestMaxRatio(summary.max_ppm_day)
        /\ EarliestMax(summary.largest_single_forward, "max_forward_sat")
        /\ EarliestMax(summary.largest_single_fee, "max_fee_sat")

AmtSat(i) == events[i].amt_out_msat \div MsatPerSat

FeeSat(i) == events[i].fee_msat \div MsatPerSat

\* the per-event ppm values over the common denominator PpmDen
PpmDen == FnProd([i \in 1..Len(events) |-> IF AmtSat(i) > 0 THEN AmtSat(i) ELSE 1],
                 1..Len(events))

PpmNum ==
    FnSum([i \in 1..Len(events) |->
              IF AmtSat(i) > 0 THEN FeeSat(i) * PpmScale * (PpmDen \div AmtSat(i)) ELSE 0],
          1..Len(events))

C9_RowInvariant ==
    day_pc = "written" =>
        /\ (daily.tx_count = 0 => daily = ZeroRow(daily.date))
        /\ (daily.tx_count > 0 =>
                /\ daily.p50_sat <= daily.p95_sat
                /\ daily.p95_sat <= daily.max_forward_sat)

\* a day of three events whose percentiles and maximum all differ
C9_Witness ==
    /\ day_pc = "written"
    /\ daily.tx_count >= 3
    /\ daily.p50_sat < daily.p95_sat
    /\ daily.p95_sat < daily.max_forward_sat
    /\ AmtSat(1) > AmtSat(2)

\* C10: with the end date before the start date nothing is queried and
\* nothing is written, and the run ends with the configuration error.
C10_InvalidRangeAborts ==
    ~ValidRange =>
        /\ ~header_written
        /\ queried = <<>>
        /\ ~charts_saved
        /\ ~summary.printed
        /\ (pc # "open" => pc = "aborted" /\ error = "ConfigurationError")

====
